---------------------------- MODULE Spec2Model ----------------------------
(***************************************************************************)
(* Photo-Finder: the search orchestrator (photo_finder/engine.py), the     *)
(* SQLite hash cache and directory index (photo_finder/cache.py) and the   *)
(* fingerprint arithmetic (photo_finder/hasher.py).                        *)
(*                                                                         *)
(* A behaviour is a sequence of calls of search() on one search directory  *)
(* and one cache database; between two calls the file system may change.   *)
(* Paths are numbers: 0 is the canonical reference image, 1..NFiles are    *)
(* the canonical candidate files, RefAlias is a second spelling of the     *)
(* reference path.                                                         *)
(***************************************************************************)
EXTENDS Integers, Sequences, FiniteSets, TLC

(***************************************************************************)
(* Bounds of the model.                                                    *)
(***************************************************************************)
NFiles == 3            \* candidate files the directory can hold
MaxRuns == 2           \* calls of search() in one behaviour
MaxMods == 1           \* file-system changes between the calls
MaxInterrupts == 1     \* operator interrupts (SIGINT) in one behaviour

(***************************************************************************)
(* Program constants.                                                      *)
(***************************************************************************)
DefaultBatchSize == 500    \* SearchConfig.batch_size
DefaultThreshold == 90     \* SearchConfig.threshold
DefaultTolerance == 50     \* SearchConfig.size_tolerance_pct

RefPath == 0
RefAlias == NFiles + 1
Files == 1..NFiles
NoTolerance == 0 - 1       \* size_tolerance_pct = None

(***************************************************************************)
(* Path.resolve(): the alias of the reference resolves to the canonical    *)
(* reference path; canonical paths resolve to themselves.  Every candidate *)
(* file has a second spelling as well: Alias(f) resolves to f.             *)
(***************************************************************************)
Alias(p) == p + NFiles + 1
Spellings == Files \cup { Alias(f) : f \in Files }

resolve(p) == IF p > NFiles THEN p - (NFiles + 1) ELSE p

\* the last candidate file lies in a subdirectory of the search directory
InSubdir(f) == f = NFiles

(***************************************************************************)
(* Images and fingerprints.  The hash algorithms are external; an image    *)
(* is one of a few contents, each with a fixed bit vector of hash_size^2   *)
(* bits, or no fingerprint at all ("bad": the decode fails).               *)
(***************************************************************************)
Algorithms == {"perceptual", "average"}
HashSizes == {2, 4}
Images == {"same", "near", "diff", "bad"}

RefBits(hs) == [i \in 1..(hs * hs) |-> IF i % 2 = 1 THEN 1 ELSE 0]

\* hash_fn(img, hash_size=hash_size): the bit vector of an image
hash_fn(img, algorithm, hs) ==
    CASE img = "same" -> RefBits(hs)
      [] img = "near" -> [i \in 1..(hs * hs) |->
                             IF i = (IF algorithm = "average" THEN 2 ELSE 1)
                             THEN 1 - RefBits(hs)[i] ELSE RefBits(hs)[i]]
      [] OTHER        -> [i \in 1..(hs * hs) |-> 1 - RefBits(hs)[i]]

NoResult == [path |-> 0 - 1, hash_value |-> << >>, algorithm |-> "none",
             file_size |-> 0, file_mtime |-> 0]

\* ImageHash.__sub__: the Hamming distance, counted position by position
RECURSIVE CountDiff(_, _, _)
CountDiff(a, b, i) ==
    IF i > Len(a) THEN 0
    ELSE (IF a[i] # b[i] THEN 1 ELSE 0) + CountDiff(a, b, i + 1)

distance(self, other) == CountDiff(self.hash_value, other.hash_value, 1)

Min(x, y) == IF x <= y THEN x ELSE y
Max(x, y) == IF x >= y THEN x ELSE y

(***************************************************************************)
(* similarity_pct: max(0.0, (1.0 - dist / max_bits) * 100.0).  The model   *)
(* keeps the percentage exact in hundredths of a percent: Pct(90) is 90%   *)
(* (bit counts are powers of two, so the float arithmetic is exact).       *)
(***************************************************************************)
Pct(x) == x * 100

\* a similarity that reports the share of differing bits
similarity_pct_Differing(self, other) ==
    Max(0, Pct(distance(self, other) * 100) \div Len(self.hash_value))

similarity_pct(self, other) ==
    LET max_bits == Len(self.hash_value)
        dist == distance(self, other)
    IN Max(0, Pct((max_bits - dist) * 100) \div max_bits)

\* str(ImageHash): the bits as a number written in hex
RECURSIVE BitsToInt(_, _)
BitsToInt(bits, n) ==
    IF n = 0 THEN 0 ELSE 2 * BitsToInt(bits, n - 1) + bits[n]

hash_to_hex(bits) == BitsToInt(bits, Len(bits))

\* imagehash.hex_to_hash: the number back to a bit vector of the given width
RECURSIVE IntToBits(_, _)
IntToBits(v, n) ==
    IF n = 0 THEN << >> ELSE Append(IntToBits(v \div 2, n - 1), v % 2)

hex_to_hash(hex, hs) == IntToBits(hex, hs * hs)

(***************************************************************************)
(* The file system.  A candidate file is absent or has a size, an mtime    *)
(* and a content.  The reference image has a fixed size and content.       *)
(***************************************************************************)
Absent == [present |-> FALSE, size |-> 0, mtime |-> 0, img |-> "bad"]
Kinds == { <<2, "same">>, <<2, "near">>, <<3, "diff">>, <<5, "diff">>,
           <<2, "bad">> }
FileOfKind(k, m) == [present |-> TRUE, size |-> k[1], mtime |-> m, img |-> k[2]]
RefFile == [present |-> TRUE, size |-> 2, mtime |-> 1, img |-> "same"]

VARIABLES
    fs,              \* Files -> file record
    refKind,         \* "ok" | "missing" | "bad": the reference image on disk
    refInDir,        \* the reference image lies inside the search directory
    links,           \* the files a symbolic link in the directory points to
    dirOk,           \* the search directory exists
    dirMtime,        \* st_mtime of the search directory
    dbOk,            \* the cache database file can be opened
    db_hashes,       \* table image_hashes: <<path, algorithm, hash_size>> -> row
    db_meta,         \* table directory_meta: the row of the root
    db_index,        \* table directory_index: the member paths of the root
    tx,              \* the open, uncommitted transaction of the connection
    pc,              \* position of search()
    cfg,             \* SearchConfig of the running call
    exc,             \* exception raised out of search()
    reference_image, \* the resolved reference path
    ref_hash,
    cacheConn,       \* "none" | "open" | "closed": the HashCache connection
    statPool,        \* "none" | "open" | "closed": the ThreadPoolExecutor
    hashPool,        \* "none" | "open" | "closed": the mp.Pool
    candidates,
    stats,           \* SearchStats
    stats_map,
    cached_results,
    missing,
    chunks,          \* _chunked(worker_args, batch_size)
    chunkIdx,        \* the chunk the for loop is at
    pending,         \* tasks of the chunk whose result is not yet received
    chunk_results,
    results,
    matches,
    interrupted,     \* KeyboardInterrupt was caught by the hashing loop
    plan,            \* the SearchConfig of each call the caller makes
    runs, mods, interrupts,
    changed,         \* files changed since the previous call returned
    other,           \* a second process that replaces the index of the root
    lookup,          \* the last call a client made on HashCache, and its result
    prev             \* what the previous call did

vars == << fs, refKind, refInDir, links, dirOk, dirMtime, dbOk, db_hashes, db_meta,
           db_index, tx, other, lookup, pc, cfg, exc, reference_image, ref_hash, cacheConn, statPool,
           hashPool, candidates, stats, stats_map, cached_results, missing,
           chunks, chunkIdx, pending, chunk_results, results, matches,
           interrupted, plan, runs, mods, interrupts, changed, prev >>

fsVars == << fs, refKind, refInDir, links, dirOk, dirMtime, dbOk >>
dbVars == << db_hashes, db_meta, db_index, tx >>
extVars == << other, lookup >>
boundVars == << plan, runs, mods, interrupts >>

(***************************************************************************)
(* SearchConfig.  __post_init__ replaces a batch_size <= 0 by the default. *)
(***************************************************************************)
Thresholds == {Pct(75), Pct(DefaultThreshold)}
Tolerances == {NoTolerance, DefaultTolerance}
BatchSizes == {1, 2}

post_init(c) ==
    IF c.batch_size <= 0 THEN [c EXCEPT !.batch_size = DefaultBatchSize] ELSE c

Configs ==
    [algorithm : {"perceptual"}, hash_size : {2}, threshold : Thresholds,
     use_cache : BOOLEAN, size_tolerance_pct : Tolerances,
     batch_size : BatchSizes, use_dir_index : BOOLEAN,
     refresh_dir_index : {FALSE}]

\* the configurations of the calls that share a warm hash cache
CachedConfigs ==
    { c \in Configs : /\ c.use_cache
                      /\ c.threshold = Pct(DefaultThreshold)
                      /\ c.batch_size = 1 }

\* the configurations of calls that differ in algorithm and hash size, and
\* that give a batch size or leave a non-positive one to __post_init__
KeyConfigs ==
    [algorithm : Algorithms, hash_size : HashSizes,
     threshold : {Pct(DefaultThreshold)}, use_cache : {TRUE},
     size_tolerance_pct : {NoTolerance}, batch_size : {0 - 1, 0, 2},
     use_dir_index : {TRUE}, refresh_dir_index : {FALSE}]

NoConfig == [algorithm |-> "none", hash_size |-> 0, threshold |-> 0,
             use_cache |-> FALSE, size_tolerance_pct |-> NoTolerance,
             batch_size |-> 0, use_dir_index |-> FALSE,
             refresh_dir_index |-> FALSE]

ZeroStats == [total_files |-> 0, images_scanned |-> 0, images_failed |-> 0,
              matches_found |-> 0]

NoMeta == [present |-> FALSE, dir_mtime |-> 0, file_count |-> 0]
EmptyMap == [x \in {} |-> 0]
NoTx == [open |-> FALSE, index |-> << >>, meta |-> NoMeta]
NoOther == [pc |-> "idle", walk |-> << >>]
NoLookup == [op |-> "none", paths |-> << >>, hashes |-> << >>,
             algorithm |-> "none", hash_size |-> 0, result |-> EmptyMap]
NoPrev == [status |-> "none", matches |-> << >>, missing |-> << >>,
           fresh |-> << >>, cached_results |-> << >>, flushed |-> 0,
           interrupted |-> FALSE, stats |-> ZeroStats, db_hashes |-> EmptyMap]

\* the file behind a canonical path
FileAt(p) ==
    IF p = RefPath
    THEN [RefFile EXCEPT !.present = (refKind # "missing"),
                         !.img = IF refKind = "bad" THEN "bad" ELSE "same"]
    ELSE fs[p]

\* a compute_hash that fingerprints whatever it is given
compute_hash_NeverFails(image_path, algorithm, hs, prefetched, file_size, file_mtime) ==
    LET f == FileAt(image_path)
    IN [path |-> image_path,
        hash_value |-> hash_fn(f.img, algorithm, hs),
        algorithm |-> algorithm,
        file_size |-> IF prefetched THEN file_size ELSE f.size,
        file_mtime |-> IF prefetched THEN file_mtime ELSE f.mtime]

(***************************************************************************)
(* hasher.compute_hash: None when the image cannot be loaded or hashed;    *)
(* size and mtime are the pre-fetched ones when given, else a fresh stat.  *)
(***************************************************************************)
compute_hash(image_path, algorithm, hs, prefetched, file_size, file_mtime) ==
    LET f == FileAt(image_path)
    IN IF ~f.present \/ f.img = "bad" THEN NoResult
       ELSE [path |-> image_path,
             hash_value |-> hash_fn(f.img, algorithm, hs),
             algorithm |-> algorithm,
             file_size |-> IF prefetched THEN file_size ELSE f.size,
             file_mtime |-> IF prefetched THEN file_mtime ELSE f.mtime]

\* engine._compute_hash_worker on one worker_args tuple
compute_hash_worker(args) ==
    compute_hash(args.path, args.algorithm, args.hash_size, TRUE,
                 args.size, args.mtime)

(***************************************************************************)
(* hasher.collect_image_paths: the image files under the directory, in the *)
(* order of the walk (the reference first when it lies in the directory).  *)
(***************************************************************************)
\* os.walk lists a symbolic link to a file among the files, under its own
\* name; Path.resolve() then gives the path of its target
LinkTo(p) == IF p \in links THEN << Alias(p) >> ELSE << >>

RECURSIVE WalkFrom(_)
WalkFrom(p) ==
    IF p > NFiles THEN << >>
    ELSE (IF fs[p].present THEN << p >> ELSE << >>) \o LinkTo(p)
            \o WalkFrom(p + 1)

collect_image_paths ==
    (IF refInDir /\ refKind # "missing" THEN << RefPath >> ELSE << >>)
        \o LinkTo(RefPath) \o WalkFrom(1)

Range(s) == { s[i] : i \in 1..Len(s) }

(***************************************************************************)
(* cache.HashCache: the three tables and the operations on them.           *)
(***************************************************************************)
\* a get_index that takes an index without member rows as a hit
get_index_HitOnEmpty(meta, rows, rootStatOk, current_mtime) ==
    IF ~meta.present THEN [hit |-> FALSE, paths |-> << >>]
    ELSE IF ~rootStatOk THEN [hit |-> FALSE, paths |-> << >>]
    ELSE IF current_mtime # meta.dir_mtime THEN [hit |-> FALSE, paths |-> << >>]
    ELSE IF Len(rows) # meta.file_count THEN [hit |-> FALSE, paths |-> << >>]
    ELSE [hit |-> TRUE, paths |-> rows]

\* a get_index that does not compare the mtime of the root
get_index_IgnoreMtime(meta, rows, rootStatOk, current_mtime) ==
    IF ~meta.present THEN [hit |-> FALSE, paths |-> << >>]
    ELSE IF ~rootStatOk THEN [hit |-> FALSE, paths |-> << >>]
    ELSE IF rows = << >> THEN [hit |-> FALSE, paths |-> << >>]
    ELSE IF Len(rows) # meta.file_count THEN [hit |-> FALSE, paths |-> << >>]
    ELSE [hit |-> TRUE, paths |-> rows]

\* get_index: the persisted member list, or a miss
get_index(meta, rows, rootStatOk, current_mtime) ==
    IF ~meta.present THEN [hit |-> FALSE, paths |-> << >>]
    ELSE IF ~rootStatOk THEN [hit |-> FALSE, paths |-> << >>]
    ELSE IF current_mtime # meta.dir_mtime THEN [hit |-> FALSE, paths |-> << >>]
    ELSE IF rows = << >> THEN [hit |-> FALSE, paths |-> << >>]
    ELSE IF Len(rows) # meta.file_count THEN [hit |-> FALSE, paths |-> << >>]
    ELSE [hit |-> TRUE, paths |-> rows]

\* replace_index: the rows and the metadata row written for the root
replace_index_rows(paths) == [i \in 1..Len(paths) |-> resolve(paths[i])]

replace_index_meta(paths, rootStatOk, current_mtime) ==
    [present |-> TRUE,
     dir_mtime |-> IF rootStatOk THEN current_mtime ELSE 0,
     file_count |-> Len(paths)]

\* PRIMARY KEY (root, path) of directory_index: no two rows of a root with
\* one path
NoDuplicates(rows) ==
    \A i, j \in 1..Len(rows) : rows[i] = rows[j] => i = j

\* replace_index stats every member: a vanished member raises
AllStatOk(paths) == \A i \in 1..Len(paths) : FileAt(resolve(paths[i])).present

\* a key that keeps the path as it was spelled
CacheKey_AsSpelled(path, algorithm, hs) == << path, algorithm, hs >>

\* a lookup that takes the rows of the algorithm whatever their hash size
get_cached_AnySize(db, paths, algorithm, hs) ==
    LET found == { resolve(paths[i]) : i \in 1..Len(paths) } \cap
                 { k[1] : k \in { kk \in DOMAIN db : kk[2] = algorithm } }
    IN [p \in found |->
           LET key == CHOOSE k \in DOMAIN db : k[1] = p /\ k[2] = algorithm
               row == db[key]
           IN [path |-> p, mtime |-> row.mtime, size |-> row.size,
               algorithm |-> algorithm, hash_size |-> key[3],
               hash_hex |-> row.hash]]

CacheKey(path, algorithm, hs) == << resolve(path), algorithm, hs >>

\* _SQLITE_MAX_VARS, and the limit of the store it stays under
SQLITE_MAX_VARS == 900
SQLITE_MAX_VARIABLE_NUMBER == 999

\* path_list[i : i + max_vars] for i in range(0, len(path_list), max_vars)
PathChunks(path_list, max_vars) ==
    [k \in 1..((Len(path_list) + max_vars - 1) \div max_vars) |->
        SubSeq(path_list, (k - 1) * max_vars + 1,
               Min(k * max_vars, Len(path_list)))]

\* the parameters one statement binds: algorithm, hash_size and the chunk
BoundParams(chunk) == << "algorithm", "hash_size" >> \o chunk

\* one SELECT ... WHERE algorithm = ? AND hash_size = ? AND path IN (chunk)
select_rows(db, chunk, algorithm, hs) ==
    LET found == { chunk[i] : i \in 1..Len(chunk) } \cap
                 { k[1] : k \in { kk \in DOMAIN db :
                                    kk[2] = algorithm /\ kk[3] = hs } }
    IN [p \in found |->
           LET row == db[<< p, algorithm, hs >>]
           IN [path |-> p, mtime |-> row.mtime, size |-> row.size,
               algorithm |-> algorithm, hash_size |-> hs,
               hash_hex |-> row.hash]]

\* a loop that keeps the rows of the last statement only
RECURSIVE merge_chunks_LastOnly(_, _, _, _, _)
merge_chunks_LastOnly(cached, db, chunkSeq, algorithm, hs) ==
    IF chunkSeq = << >> THEN cached
    ELSE merge_chunks_LastOnly(select_rows(db, Head(chunkSeq), algorithm, hs),
                               db, Tail(chunkSeq), algorithm, hs)

\* the loop of get_cached: cached[row path] = row, statement after statement
RECURSIVE merge_chunks(_, _, _, _, _)
merge_chunks(cached, db, chunkSeq, algorithm, hs) ==
    IF chunkSeq = << >> THEN cached
    ELSE merge_chunks(select_rows(db, Head(chunkSeq), algorithm, hs) @@ cached,
                      db, Tail(chunkSeq), algorithm, hs)

\* get_cached with the statement size as a parameter
get_cached_by(db, paths, algorithm, hs, max_vars) ==
    LET path_list == [i \in 1..Len(paths) |-> resolve(paths[i])]
    IN IF paths = << >> THEN EmptyMap
       ELSE merge_chunks(EmptyMap, db, PathChunks(path_list, max_vars),
                         algorithm, hs)

\* get_cached: the rows of the given paths under (algorithm, hash_size)
get_cached(db, paths, algorithm, hs) ==
    get_cached_by(db, paths, algorithm, hs, SQLITE_MAX_VARS)

\* a row that stores the time of the write instead of the file's mtime
UpsertRow_WriteTime(h) ==
    [mtime |-> h.file_mtime + 1, size |-> h.file_size,
     hash |-> hash_to_hex(h.hash_value)]

\* the row upsert_many writes for one result
UpsertRow(h) ==
    [mtime |-> h.file_mtime, size |-> h.file_size,
     hash |-> hash_to_hex(h.hash_value)]

\* an upsert that keeps the old row on conflict (INSERT OR IGNORE)
RECURSIVE upsert_many_Ignore(_, _, _)
upsert_many_Ignore(db, hashes, hs) ==
    IF hashes = << >> THEN db
    ELSE LET h == Head(hashes)
             key == CacheKey(h.path, h.algorithm, hs)
         IN upsert_many_Ignore(IF key \in DOMAIN db THEN db
                               ELSE db @@ (key :> UpsertRow(h)),
                               Tail(hashes), hs)

\* an upsert that never reaches the table
upsert_many_Nothing(db, hashes, hs) == db

\* an upsert whose conflict target is the path alone (INSERT OR REPLACE on a
\* table keyed by path): it drops the file's rows under other keys
RECURSIVE upsert_many_ReplacePath(_, _, _)
upsert_many_ReplacePath(db, hashes, hs) ==
    IF hashes = << >> THEN db
    ELSE LET h == Head(hashes)
             key == CacheKey(h.path, h.algorithm, hs)
             others == [k \in { kk \in DOMAIN db : kk[1] # key[1] } |-> db[k]]
         IN upsert_many_ReplacePath(others @@ (key :> UpsertRow(h)),
                                    Tail(hashes), hs)

\* upsert_many: INSERT ... ON CONFLICT DO UPDATE, one result after the other
RECURSIVE upsert_many(_, _, _)
upsert_many(db, hashes, hs) ==
    IF hashes = << >> THEN db
    ELSE LET h == Head(hashes)
             key == CacheKey(h.path, h.algorithm, hs)
             others == [k \in DOMAIN db \ {key} |-> db[k]]
         IN upsert_many(others @@ (key :> UpsertRow(h)), Tail(hashes), hs)

\* HashCache.to_result
to_result(cached) ==
    [path |-> cached.path,
     hash_value |-> hex_to_hash(cached.hash_hex, cached.hash_size),
     algorithm |-> cached.algorithm,
     file_size |-> cached.size,
     file_mtime |-> cached.mtime]

(***************************************************************************)
(* engine helpers.                                                         *)
(***************************************************************************)

\* a split that yields full batches only
RECURSIVE chunked_FullOnly(_, _)
chunked_FullOnly(items, size) ==
    IF Len(items) < size \/ items = << >> THEN << >>
    ELSE << SubSeq(items, 1, size) >>
            \o chunked_FullOnly(SubSeq(items, size + 1, Len(items)), size)

\* _chunked(items, size)
RECURSIVE chunked(_, _)
chunked(items, size) ==
    IF items = << >> THEN << >>
    ELSE << SubSeq(items, 1, Min(size, Len(items))) >>
            \o chunked(SubSeq(items, Min(size, Len(items)) + 1, Len(items)), size)

\* a dict assignment d[key] = value on an insertion-ordered dict of results
DictPut(d, res) ==
    IF \E i \in 1..Len(d) : d[i].path = res.path
    THEN [i \in 1..Len(d) |-> IF d[i].path = res.path THEN res ELSE d[i]]
    ELSE Append(d, res)

\* a freshness test that forgets the mtime
EntryFresh_SizeOnly(entry, st) == st[1] = entry.size

\* step 5 of search(): a cache entry stands in for recomputation when its
\* size and mtime equal the ones of stats_map
EntryFresh(entry, st) == st[1] = entry.size /\ st[2] = entry.mtime

\* a resolution that hashes every candidate again
ResolveMissing_All(cands, cached, smap) == cands

RECURSIVE ResolveMissing(_, _, _)
ResolveMissing(cands, cached, smap) ==
    IF cands = << >> THEN << >>
    ELSE LET path == Head(cands)
             rest == ResolveMissing(Tail(cands), cached, smap)
         IN IF path \notin DOMAIN cached THEN << path >> \o rest
            ELSE IF EntryFresh(cached[path], smap[path]) THEN rest
            ELSE << path >> \o rest

RECURSIVE ResolveCachedResults(_, _, _, _)
ResolveCachedResults(cands, cached, smap, acc) ==
    IF cands = << >> THEN acc
    ELSE LET path == Head(cands)
         IN IF path \in DOMAIN cached /\ EntryFresh(cached[path], smap[path])
            THEN ResolveCachedResults(Tail(cands), cached, smap,
                                      DictPut(acc, to_result(cached[path])))
            ELSE ResolveCachedResults(Tail(cands), cached, smap, acc)

\* step 4: the size window around the reference size
min_size(ref_size, pct) == (ref_size * (100 - Max(0, pct))) \div 100
max_size(ref_size, pct) == (ref_size * (100 + Max(0, pct))) \div 100

\* a pre-filter that removes nothing
SizeFilter_KeepAll(cands, smap, ref_size, pct) == cands

SizeFilter(cands, smap, ref_size, pct) ==
    LET Keep(p) == /\ min_size(ref_size, pct) <= smap[p][1]
                   /\ smap[p][1] <= max_size(ref_size, pct)
    IN SelectSeq(cands, Keep)

\* a threshold test that drops the boundary
Passes_Strict(similarity, threshold) == similarity > threshold

\* step 7: the candidates at or above the threshold, in the order of results
Passes(similarity, threshold) == similarity >= threshold

RECURSIVE FilterMatches(_, _, _, _)
FilterMatches(res, ref, refh, threshold) ==
    IF res = << >> THEN << >>
    ELSE LET r == Head(res)
             rest == FilterMatches(Tail(res), ref, refh, threshold)
         IN IF r = NoResult THEN rest
            ELSE IF Passes(similarity_pct(refh, r), threshold)
                 THEN << [reference |-> ref, candidate |-> r.path,
                          distance |-> distance(refh, r),
                          similarity_pct |-> similarity_pct(refh, r),
                          file_size |-> r.file_size] >> \o rest
                 ELSE rest

\* list.sort(key=similarity_pct, reverse=True): a stable sort
RECURSIVE InsertMatch(_, _)
InsertMatch(sorted, m) ==
    IF sorted = << >> THEN << m >>
    ELSE IF Head(sorted).similarity_pct >= m.similarity_pct
         THEN << Head(sorted) >> \o InsertMatch(Tail(sorted), m)
         ELSE << m >> \o sorted

RECURSIVE SortMatches(_)
SortMatches(ms) ==
    IF ms = << >> THEN << >>
    ELSE InsertMatch(SortMatches(SubSeq(ms, 1, Len(ms) - 1)), ms[Len(ms)])

\* a count that never sees a failure
CountFailed_Zero(res) == 0

CountFailed(res) == Cardinality({ i \in 1..Len(res) : res[i] = NoResult })
CountScanned(res) == Cardinality({ i \in 1..Len(res) : res[i] # NoResult })

(***************************************************************************)
(* The state after construction: a file system, an empty cache database,   *)
(* no call of search() running.                                            *)
(***************************************************************************)
\* a file whose decoding never returns (a stalled mount, an endless stream)
HangingFile == [present |-> TRUE, size |-> 2, mtime |-> 1, img |-> "hang"]
Hangs(f) == f.img = "hang"

InitFiles == {Absent} \cup { FileOfKind(k, 1) : k \in Kinds }

Locals0 ==
    /\ pc = "idle"
    /\ cfg = NoConfig
    /\ exc = "none"
    /\ reference_image = RefPath
    /\ ref_hash = NoResult
    /\ cacheConn = "none"
    /\ statPool = "none"
    /\ hashPool = "none"
    /\ candidates = << >>
    /\ stats = ZeroStats
    /\ stats_map = EmptyMap
    /\ cached_results = << >>
    /\ missing = << >>
    /\ chunks = << >>
    /\ chunkIdx = 0
    /\ pending = {}
    /\ chunk_results = << >>
    /\ results = << >>
    /\ matches = << >>
    /\ interrupted = FALSE

InitCommon ==
    /\ dirMtime = 1
    /\ db_hashes = EmptyMap
    /\ db_meta = NoMeta
    /\ db_index = << >>
    /\ tx = NoTx
    /\ other = NoOther
    /\ lookup = NoLookup
    /\ Locals0
    /\ runs = 0 /\ mods = 0 /\ interrupts = 0
    /\ changed = {}
    /\ prev = NoPrev

\* MaxRuns calls with one configuration that uses the hash cache
Init ==
    /\ InitCommon
    /\ links = {}
    /\ fs \in [Files -> { f \in InitFiles : f.img # "near" /\ f.size # 3 }]
    /\ refKind = "ok" /\ dirOk = TRUE /\ refInDir = FALSE /\ dbOk = TRUE
    /\ plan \in { [i \in 1..MaxRuns |-> c] : c \in CachedConfigs }

\* one call, any configuration, any reference image and directory
InitCall ==
    /\ InitCommon
    /\ links = {}
    /\ fs \in [Files -> InitFiles]
    /\ \/ refKind = "ok" /\ dirOk = TRUE /\ refInDir \in BOOLEAN
       \/ refKind \in {"missing", "bad"} /\ dirOk = TRUE /\ refInDir = FALSE
       \/ refKind = "ok" /\ dirOk = FALSE /\ refInDir = FALSE
    /\ plan \in { << c >> : c \in { cc \in Configs :
                                        cc.use_dir_index => cc.use_cache } }
    /\ dbOk \in (IF plan[1].use_cache THEN BOOLEAN ELSE {TRUE})

runVars == << reference_image, ref_hash, cacheConn, statPool, hashPool,
              candidates, stats, stats_map, cached_results, missing, chunks,
              chunkIdx, pending, chunk_results, results, matches, interrupted >>

\* the call raises: control leaves search() with an exception
Raise(e) == pc' = "raised" /\ exc' = e

(***************************************************************************)
(* search(), validation and step 1: the reference hash.                    *)
(***************************************************************************)
StartSearch(c, refArg) ==
    /\ pc = "idle"
    /\ runs < Len(plan)
    /\ c = plan[runs + 1]
    /\ cfg' = post_init(c)
    /\ stats' = ZeroStats
    /\ IF refKind = "missing" \/ ~dirOk
       THEN /\ Raise("FileNotFoundError")
            /\ UNCHANGED << reference_image, ref_hash >>
       ELSE /\ reference_image' = resolve(refArg)
            /\ ref_hash' = compute_hash(resolve(refArg), c.algorithm,
                                        c.hash_size, FALSE, 0, 0)
            /\ IF ref_hash' = NoResult
               THEN Raise("ValueError")
               ELSE pc' = "scan" /\ exc' = "none"
    /\ UNCHANGED << fsVars, dbVars, cacheConn, statPool, hashPool, candidates,
                    stats_map, cached_results, missing, chunks, chunkIdx,
                    pending, chunk_results, results, matches, interrupted,
                    boundVars, extVars, changed, prev >>

(***************************************************************************)
(* Step 2: the cache is opened and the candidates are collected, from the  *)
(* directory index or from a walk that replaces the index.                 *)
(***************************************************************************)
ScanDirectory ==
    /\ pc = "scan"
    /\ IF cfg.use_cache /\ ~dbOk
       THEN /\ Raise("OperationalError")
            /\ UNCHANGED << cacheConn, candidates >>
       ELSE /\ cacheConn' = IF cfg.use_cache THEN "open" ELSE "none"
            /\ UNCHANGED exc
            /\ LET idx == get_index(db_meta, db_index, dirOk, dirMtime)
               IN IF /\ cfg.use_cache /\ cfg.use_dir_index
                     /\ ~cfg.refresh_dir_index /\ idx.hit
                  THEN /\ candidates' = idx.paths
                       /\ pc' = "normalize"
                  ELSE /\ candidates' = collect_image_paths
                       /\ pc' = IF cfg.use_cache /\ cfg.use_dir_index
                                THEN "reindex" ELSE "normalize"
    /\ UNCHANGED << fsVars, dbVars, cfg, reference_image, ref_hash, statPool,
                    hashPool, stats, stats_map, cached_results, missing, chunks,
                    chunkIdx, pending, chunk_results, results, matches,
                    interrupted, boundVars, extVars, changed, prev >>

(***************************************************************************)
(* HashCache.replace_index, statement by statement.  The connection is in  *)
(* sqlite3's default transaction mode: the DELETE opens a transaction, the *)
(* statements after it are part of it, and commit() at the end makes them  *)
(* visible to every other connection in one step.  A writer needs the      *)
(* write lock of the database, which one connection holds at a time.       *)
(***************************************************************************)
\* a store in which every statement is visible at once (autocommit)
StoreAfter_Autocommit(committed, written, stmt) == written

\* the committed table after a statement of an open transaction
StoreAfter(committed, written, stmt) ==
    IF stmt = "COMMIT" THEN written ELSE committed

ReplaceIndexDelete ==
    /\ pc = "reindex"
    /\ other.pc # "writing"
    /\ tx' = [open |-> TRUE, index |-> << >>, meta |-> db_meta]
    /\ db_index' = StoreAfter(db_index, tx'.index, "DELETE")
    /\ db_meta' = StoreAfter(db_meta, tx'.meta, "DELETE")
    /\ pc' = "reindex_rows"
    /\ UNCHANGED << fsVars, db_hashes, cfg, exc, runVars, boundVars, extVars,
                    changed, prev >>

ReplaceIndexInsert ==
    /\ pc = "reindex_rows"
    /\ IF ~AllStatOk(candidates)
       THEN /\ Raise("FileNotFoundError")
            /\ UNCHANGED tx
       ELSE IF ~NoDuplicates(replace_index_rows(candidates))
       THEN /\ Raise("IntegrityError")
            /\ UNCHANGED tx
       ELSE /\ tx' = [tx EXCEPT !.index = replace_index_rows(candidates)]
            /\ pc' = "reindex_meta"
            /\ UNCHANGED exc
    /\ db_index' = StoreAfter(db_index, tx'.index, "INSERT")
    /\ db_meta' = StoreAfter(db_meta, tx'.meta, "INSERT")
    /\ UNCHANGED << fsVars, db_hashes, cfg, runVars, boundVars, extVars,
                    changed, prev >>

ReplaceIndexCommit ==
    /\ pc = "reindex_meta"
    /\ LET meta == replace_index_meta(candidates, dirOk, dirMtime)
       IN /\ db_index' = StoreAfter(db_index, tx.index, "COMMIT")
          /\ db_meta' = StoreAfter(db_meta, meta, "COMMIT")
    /\ tx' = NoTx
    /\ pc' = "normalize"
    /\ UNCHANGED << fsVars, db_hashes, cfg, exc, runVars, boundVars, extVars,
                    changed, prev >>

(***************************************************************************)
(* The candidates are resolved and the reference is dropped; an empty      *)
(* list returns at once.                                                   *)
(***************************************************************************)
\* a normalisation that keeps the reference among the candidates
NormalizeCandidates_KeepRef(cands, ref) ==
    [i \in 1..Len(cands) |-> resolve(cands[i])]

\* a normalisation that compares the paths as they are spelled
NormalizeCandidates_BySpelling(cands, ref) ==
    LET NotRef(p) == p # ref
        kept == SelectSeq(cands, NotRef)
    IN [i \in 1..Len(kept) |-> resolve(kept[i])]

NormalizeCandidates(cands, ref) ==
    LET NotRef(p) == resolve(p) # ref
        kept == SelectSeq(cands, NotRef)
    IN [i \in 1..Len(kept) |-> resolve(kept[i])]

Normalize ==
    /\ pc = "normalize"
    /\ candidates' = NormalizeCandidates(candidates, reference_image)
    /\ stats' = [stats EXCEPT !.total_files = Len(candidates')]
    /\ IF Len(candidates') = 0
       THEN /\ pc' = "done"
            /\ cacheConn' = IF cacheConn = "open" THEN "closed" ELSE cacheConn
            /\ matches' = << >>
       ELSE /\ pc' = "stat"
            /\ UNCHANGED << cacheConn, matches >>
    /\ UNCHANGED << fsVars, dbVars, cfg, exc, reference_image, ref_hash,
                    statPool, hashPool, stats_map, cached_results, missing,
                    chunks, chunkIdx, pending, chunk_results, results,
                    interrupted, boundVars, extVars, changed, prev >>

(***************************************************************************)
(* Step 3: every candidate is stat'ed on the thread pool; a stat that      *)
(* fails raises out of executor.map and out of search().                   *)
(***************************************************************************)
StatCollect ==
    /\ pc = "stat"
    /\ statPool' = "closed"
    /\ IF \A i \in 1..Len(candidates) : FileAt(candidates[i]).present
       THEN /\ stats_map' = [p \in Range(candidates) |->
                                << FileAt(p).size, FileAt(p).mtime >>]
            /\ pc' = "prefilter"
            /\ UNCHANGED exc
       ELSE /\ Raise("FileNotFoundError")
            /\ UNCHANGED stats_map
    /\ UNCHANGED << fsVars, dbVars, cfg, reference_image, ref_hash, cacheConn,
                    hashPool, candidates, stats, cached_results, missing,
                    chunks, chunkIdx, pending, chunk_results, results, matches,
                    interrupted, boundVars, extVars, changed, prev >>

(***************************************************************************)
(* Step 4: the optional size pre-filter; total_files is counted again.     *)
(***************************************************************************)
Prefilter ==
    /\ pc = "prefilter"
    /\ IF cfg.size_tolerance_pct # NoTolerance
       THEN /\ candidates' = SizeFilter(candidates, stats_map,
                                        FileAt(reference_image).size,
                                        cfg.size_tolerance_pct)
            /\ stats' = [stats EXCEPT !.total_files = Len(candidates')]
       ELSE UNCHANGED << candidates, stats >>
    /\ pc' = "resolve"
    /\ UNCHANGED << fsVars, dbVars, cfg, exc, reference_image, ref_hash,
                    cacheConn, statPool, hashPool, stats_map, cached_results,
                    missing, chunks, chunkIdx, pending, chunk_results, results,
                    matches, interrupted, boundVars, extVars, changed, prev >>

(***************************************************************************)
(* Steps 5 and 6 up to the pool: the cached hashes are resolved, the       *)
(* worker arguments are built and split into batches.                      *)
(***************************************************************************)
WorkerArgs(paths, smap, c) ==
    [i \in 1..Len(paths) |->
        [path |-> paths[i], size |-> smap[paths[i]][1],
         mtime |-> smap[paths[i]][2], algorithm |-> c.algorithm,
         hash_size |-> c.hash_size]]

ResolveCached ==
    /\ pc = "resolve"
    /\ LET cached == get_cached(db_hashes, candidates, cfg.algorithm, cfg.hash_size)
       IN IF cacheConn = "open" /\ candidates # << >>
          THEN /\ missing' = ResolveMissing(candidates, cached, stats_map)
               /\ cached_results' =
                      ResolveCachedResults(candidates, cached, stats_map, << >>)
          ELSE /\ missing' = candidates
               /\ cached_results' = << >>
    /\ chunks' = chunked(WorkerArgs(missing', stats_map, cfg), cfg.batch_size)
    /\ pc' = "pool"
    /\ UNCHANGED << fsVars, dbVars, cfg, exc, reference_image, ref_hash,
                    cacheConn, statPool, hashPool, candidates, stats, stats_map,
                    chunkIdx, pending, chunk_results, results, matches,
                    interrupted, boundVars, extVars, changed, prev >>

(***************************************************************************)
(* Step 6: the pool.  Each chunk is handed to imap_unordered, its results  *)
(* arrive in completion order, and the chunk's fingerprints are upserted   *)
(* before the next chunk is taken.                                         *)
(***************************************************************************)
PoolBegin ==
    /\ pc = "pool"
    /\ IF Len(missing) > 0
       THEN /\ hashPool' = "open"
            /\ chunkIdx' = 1
            /\ pc' = "dispatch"
       ELSE /\ pc' = "rank"
            /\ UNCHANGED << hashPool, chunkIdx >>
    /\ UNCHANGED << fsVars, dbVars, cfg, exc, reference_image, ref_hash,
                    cacheConn, statPool, candidates, stats, stats_map,
                    cached_results, missing, chunks, pending, chunk_results,
                    results, matches, interrupted, boundVars, extVars, changed, prev >>

Dispatch ==
    /\ pc = "dispatch"
    /\ chunk_results' = << >>
    /\ pending' = 1..Len(chunks[chunkIdx])
    /\ pc' = "collect"
    /\ UNCHANGED << fsVars, dbVars, cfg, exc, reference_image, ref_hash,
                    cacheConn, statPool, hashPool, candidates, stats, stats_map,
                    cached_results, missing, chunks, chunkIdx, results, matches,
                    interrupted, boundVars, extVars, changed, prev >>

\* the most tasks a batch can hold: every file and a link to every file
MaxTasks == 2 * (NFiles + 1)

\* imap_unordered yields the result of a task when its worker has returned;
\* a worker whose decode never returns yields nothing
TaskDone(i) ==
    /\ pc = "collect"
    /\ i \in pending
    /\ ~Hangs(FileAt(chunks[chunkIdx][i].path))
    /\ LET result == compute_hash_worker(chunks[chunkIdx][i])
       IN /\ results' = Append(results, result)
          /\ chunk_results' = IF result # NoResult
                              THEN Append(chunk_results, result)
                              ELSE chunk_results
    /\ pending' = pending \ {i}
    /\ pc' = IF pending' = {} THEN "flush" ELSE "collect"
    /\ UNCHANGED << fsVars, dbVars, cfg, exc, reference_image, ref_hash,
                    cacheConn, statPool, hashPool, candidates, stats, stats_map,
                    cached_results, missing, chunks, chunkIdx, matches,
                    interrupted, boundVars, extVars, changed, prev >>

\* a flush that writes whether or not a cache was opened
Flush_Always ==
    /\ pc = "flush"
    /\ (cacheConn = "open" /\ chunk_results # << >>) => other.pc # "writing"
    /\ db_hashes' = IF chunk_results # << >>
                    THEN upsert_many(db_hashes, chunk_results, cfg.hash_size)
                    ELSE db_hashes
    /\ IF chunkIdx < Len(chunks)
       THEN /\ chunkIdx' = chunkIdx + 1
            /\ pc' = "dispatch"
            /\ UNCHANGED hashPool
       ELSE /\ hashPool' = "closed"
            /\ pc' = "rank"
            /\ UNCHANGED chunkIdx
    /\ UNCHANGED << fsVars, db_meta, db_index, tx, cfg, exc, reference_image,
                    ref_hash, cacheConn, statPool, candidates, stats, stats_map,
                    cached_results, missing, chunks, pending, chunk_results,
                    results, matches, interrupted, boundVars, extVars, changed, prev >>

Flush ==
    /\ pc = "flush"
    /\ (cacheConn = "open" /\ chunk_results # << >>) => other.pc # "writing"
    /\ db_hashes' = IF cacheConn = "open" /\ chunk_results # << >>
                    THEN upsert_many(db_hashes, chunk_results, cfg.hash_size)
                    ELSE db_hashes
    /\ IF chunkIdx < Len(chunks)
       THEN /\ chunkIdx' = chunkIdx + 1
            /\ pc' = "dispatch"
            /\ UNCHANGED hashPool
       ELSE /\ hashPool' = "closed"
            /\ pc' = "rank"
            /\ UNCHANGED chunkIdx
    /\ UNCHANGED << fsVars, db_meta, db_index, tx, cfg, exc, reference_image,
                    ref_hash, cacheConn, statPool, candidates, stats, stats_map,
                    cached_results, missing, chunks, pending, chunk_results,
                    results, matches, interrupted, boundVars, extVars, changed, prev >>

(***************************************************************************)
(* SIGINT.  Inside the try block of step 6 the KeyboardInterrupt is caught *)
(* and the pool is terminated; anywhere else it leaves search().           *)
(***************************************************************************)
InTryBlock == pc \in {"dispatch", "collect", "flush"}
Running == pc \in {"scan", "reindex", "reindex_rows", "reindex_meta",
                   "normalize", "stat", "prefilter", "resolve", "pool",
                   "dispatch", "collect", "flush", "rank"}

\* a coordinator that notes the interrupt and goes on with the batches
Interrupt_GoesOn ==
    /\ Running
    /\ interrupts < MaxInterrupts
    /\ interrupts' = interrupts + 1
    /\ IF InTryBlock
       THEN /\ interrupted' = TRUE
            /\ UNCHANGED << hashPool, pending, pc, exc >>
       ELSE /\ Raise("KeyboardInterrupt")
            /\ UNCHANGED << interrupted, hashPool, pending >>
    /\ UNCHANGED << fsVars, dbVars, cfg, reference_image, ref_hash, cacheConn,
                    statPool, candidates, stats, stats_map, cached_results,
                    missing, chunks, chunkIdx, chunk_results, results, matches,
                    plan, runs, mods, extVars, changed, prev >>

Interrupt ==
    /\ Running
    /\ interrupts < MaxInterrupts
    /\ interrupts' = interrupts + 1
    /\ IF InTryBlock
       THEN /\ interrupted' = TRUE
            /\ hashPool' = "closed"
            /\ pending' = {}
            /\ pc' = "rank"
            /\ UNCHANGED exc
       ELSE /\ Raise("KeyboardInterrupt")
            /\ UNCHANGED << interrupted, hashPool, pending >>
    /\ UNCHANGED << fsVars, dbVars, cfg, reference_image, ref_hash, cacheConn,
                    statPool, candidates, stats, stats_map, cached_results,
                    missing, chunks, chunkIdx, chunk_results, results, matches,
                    plan, runs, mods, extVars, changed, prev >>

(***************************************************************************)
(* Step 7: the cached results are merged, the results are filtered by the  *)
(* threshold and sorted, the cache is closed and search() returns.         *)
(***************************************************************************)
Rank ==
    /\ pc = "rank"
    /\ results' = results \o cached_results
    /\ matches' = SortMatches(FilterMatches(results', reference_image, ref_hash,
                                            cfg.threshold))
    /\ stats' = [stats EXCEPT !.images_failed = CountFailed(results'),
                              !.images_scanned = CountScanned(results'),
                              !.matches_found = Len(matches')]
    /\ cacheConn' = IF cacheConn = "open" THEN "closed" ELSE cacheConn
    /\ pc' = "done"
    /\ UNCHANGED << fsVars, dbVars, cfg, exc, reference_image, ref_hash,
                    statPool, hashPool, candidates, stats_map, cached_results,
                    missing, chunks, chunkIdx, pending, chunk_results,
                    interrupted, boundVars, extVars, changed, prev >>

(***************************************************************************)
(* Control is back at the caller; what the call did is remembered for the  *)
(* next one.  A connection that the call left open is dropped with its     *)
(* frame, and what it had not committed is rolled back.                    *)
(***************************************************************************)
Return ==
    /\ pc \in {"done", "raised"}
    /\ prev' = [status |-> pc, matches |-> matches, missing |-> missing,
                fresh |-> IF pc = "done"
                          THEN SubSeq(results, 1,
                                      Len(results) - Len(cached_results))
                          ELSE results,
                cached_results |-> cached_results,
                flushed |-> IF interrupted THEN chunkIdx - 1 ELSE Len(chunks),
                interrupted |-> interrupted, stats |-> stats,
                db_hashes |-> db_hashes]
    /\ runs' = runs + 1
    /\ changed' = {}
    /\ pc' = "idle"
    /\ cfg' = NoConfig
    /\ exc' = "none"
    /\ reference_image' = RefPath
    /\ ref_hash' = NoResult
    /\ cacheConn' = "none"
    /\ statPool' = "none"
    /\ hashPool' = "none"
    /\ candidates' = << >>
    /\ stats' = ZeroStats
    /\ stats_map' = EmptyMap
    /\ cached_results' = << >>
    /\ missing' = << >>
    /\ chunks' = << >>
    /\ chunkIdx' = 0
    /\ pending' = {}
    /\ chunk_results' = << >>
    /\ results' = << >>
    /\ matches' = << >>
    /\ interrupted' = FALSE
    /\ tx' = NoTx
    /\ UNCHANGED << fsVars, db_hashes, db_meta, db_index, plan, mods,
                    interrupts, extVars >>

(***************************************************************************)
(* The environment: between two calls a file is created, deleted,          *)
(* rewritten (new mtime) or replaced with its mtime preserved.  Creating   *)
(* and deleting a file directly under the search directory change the      *)
(* mtime of the directory; in a subdirectory they do not.                  *)
(***************************************************************************)
Now == mods + 2

CreateFile(f, k) ==
    /\ ~fs[f].present
    /\ fs' = [fs EXCEPT ![f] = FileOfKind(k, Now)]
    /\ dirMtime' = IF InSubdir(f) THEN dirMtime ELSE Now

DeleteFile(f) ==
    /\ fs[f].present
    /\ fs' = [fs EXCEPT ![f] = Absent]
    /\ dirMtime' = IF InSubdir(f) THEN dirMtime ELSE Now

RewriteFile(f, k) ==
    /\ fs[f].present
    /\ fs' = [fs EXCEPT ![f] = FileOfKind(k, Now)]
    /\ UNCHANGED dirMtime

ReplaceKeepingMtime(f, k) ==
    /\ fs[f].present
    /\ k[2] # fs[f].img
    /\ fs' = [fs EXCEPT ![f] = FileOfKind(k, fs[f].mtime)]
    /\ UNCHANGED dirMtime

Mutate(f, k) ==
    /\ pc = "idle"
    /\ runs > 0
    /\ runs < Len(plan)
    /\ mods < MaxMods
    /\ \/ CreateFile(f, k)
       \/ DeleteFile(f)
       \/ RewriteFile(f, k)
       \/ ReplaceKeepingMtime(f, k)
    /\ mods' = mods + 1
    /\ changed' = changed \cup {f}
    /\ UNCHANGED << refKind, refInDir, links, dirOk, dbOk, dbVars, pc, cfg, exc,
                    runVars, plan, runs, interrupts, extVars, prev >>

NextCall ==
    \/ \E c \in Range(plan), refArg \in {RefPath, RefAlias} :
          StartSearch(c, refArg)
    \/ ScanDirectory
    \/ ReplaceIndexDelete
    \/ ReplaceIndexInsert
    \/ ReplaceIndexCommit
    \/ Normalize
    \/ StatCollect
    \/ Prefilter
    \/ ResolveCached
    \/ PoolBegin
    \/ Dispatch
    \/ \E i \in 1..MaxTasks : TaskDone(i)
    \/ Flush
    \/ Interrupt
    \/ Rank
    \/ Return

\* the steps search() takes by itself: all but the operator's SIGINT
CallStep ==
    \/ \E c \in Range(plan), refArg \in {RefPath, RefAlias} :
          StartSearch(c, refArg)
    \/ ScanDirectory
    \/ ReplaceIndexDelete
    \/ ReplaceIndexInsert
    \/ ReplaceIndexCommit
    \/ Normalize
    \/ StatCollect
    \/ Prefilter
    \/ ResolveCached
    \/ PoolBegin
    \/ Dispatch
    \/ \E i \in 1..MaxTasks : TaskDone(i)
    \/ Flush
    \/ Rank
    \/ Return

Next ==
    \/ NextCall
    \/ \E f \in Files, k \in Kinds : Mutate(f, k)

\* the calls of one caller on one cache database, the files changing between
Spec == Init /\ [][Next]_vars

\* a single call of search() on a fresh cache database
SpecCall == InitCall /\ [][NextCall]_vars

(***************************************************************************)
(* The database shared with a second process: another search() on the same *)
(* root walks the directory and runs replace_index on its own connection.  *)
(* While it holds the write lock, a write of this process waits, and gives *)
(* up with sqlite3.OperationalError when the busy timeout expires.         *)
(***************************************************************************)
OtherWalk ==
    /\ other.pc = "idle"
    /\ dirOk
    /\ other' = [pc |-> "walked", walk |-> collect_image_paths]
    /\ UNCHANGED << fsVars, dbVars, lookup, pc, cfg, exc, runVars, boundVars,
                    changed, prev >>

OtherDelete ==
    /\ other.pc = "walked"
    /\ ~tx.open
    /\ other' = [other EXCEPT !.pc = "writing"]
    /\ UNCHANGED << fsVars, dbVars, lookup, pc, cfg, exc, runVars, boundVars,
                    changed, prev >>

OtherCommit ==
    /\ other.pc = "writing"
    /\ IF AllStatOk(other.walk) /\ NoDuplicates(replace_index_rows(other.walk))
       THEN /\ db_index' = StoreAfter(db_index, replace_index_rows(other.walk),
                                      "COMMIT")
            /\ db_meta' = StoreAfter(db_meta,
                                     replace_index_meta(other.walk, dirOk, dirMtime),
                                     "COMMIT")
       ELSE UNCHANGED << db_index, db_meta >>
    /\ other' = [other EXCEPT !.pc = "done"]
    /\ UNCHANGED << fsVars, db_hashes, tx, lookup, pc, cfg, exc, runVars,
                    boundVars, changed, prev >>

LockTimeout ==
    /\ other.pc = "writing"
    /\ \/ pc = "reindex"
       \/ pc = "flush" /\ cacheConn = "open" /\ chunk_results # << >>
    /\ Raise("OperationalError")
    /\ hashPool' = IF pc = "flush" THEN "closed" ELSE hashPool
    /\ UNCHANGED << fsVars, dbVars, cfg, reference_image, ref_hash, cacheConn,
                    statPool, candidates, stats, stats_map, cached_results,
                    missing, chunks, chunkIdx, pending, chunk_results, results,
                    matches, interrupted, boundVars, extVars, changed, prev >>

\* a listed file is deleted while replace_index is about to stat its members
VanishDuringScan(f) ==
    /\ pc = "reindex_rows"
    /\ fs[f].present
    /\ fs' = [fs EXCEPT ![f] = Absent]
    /\ dirMtime' = IF InSubdir(f) THEN dirMtime ELSE Now
    /\ changed' = changed \cup {f}
    /\ UNCHANGED << refKind, refInDir, links, dirOk, dbOk, dbVars, pc, cfg, exc,
                    runVars, boundVars, extVars, prev >>

\* a file is created after the walk and before replace_index has read the
\* root's mtime (cache.py:138)
AppearDuringScan(f) ==
    /\ pc \in {"reindex", "reindex_rows", "reindex_meta"}
    /\ mods < MaxMods
    /\ CreateFile(f, << 2, "same" >>)
    /\ mods' = mods + 1
    /\ changed' = changed \cup {f}
    /\ UNCHANGED << refKind, refInDir, links, dirOk, dbOk, dbVars, pc, cfg, exc,
                    runVars, plan, runs, interrupts, extVars, prev >>

NextShared ==
    \/ Next
    \/ OtherWalk
    \/ OtherDelete
    \/ OtherCommit
    \/ LockTimeout
    \/ \E f \in Files : VanishDuringScan(f)
    \/ \E f \in Files : AppearDuringScan(f)

\* two calls that keep a directory index, on a database another process
\* writes to as well
InitShared ==
    /\ InitCommon
    /\ links = {}
    /\ fs \in [Files -> {Absent, FileOfKind(<< 2, "same" >>, 1)}]
    /\ refKind = "ok" /\ dirOk = TRUE /\ refInDir = FALSE /\ dbOk = TRUE
    /\ plan \in { [i \in 1..MaxRuns |-> c] :
                     c \in { cc \in CachedConfigs :
                                /\ cc.use_dir_index
                                /\ cc.size_tolerance_pct = NoTolerance } }

SpecShared == InitShared /\ [][NextShared]_vars

\* two calls on one database that may differ in algorithm and hash size
InitKeys ==
    /\ InitCommon
    /\ links = {}
    /\ fs \in { f \in [Files -> InitFiles] :
                  /\ f[1].present /\ f[1].img \in {"same", "near"}
                  /\ \A i \in Files \ {1} :
                        f[i].present => << f[i].size, f[i].img >> = << 2, "near" >> }
    /\ refKind = "ok" /\ dirOk = TRUE /\ refInDir = FALSE /\ dbOk = TRUE
    /\ plan \in [1..MaxRuns -> KeyConfigs]

SpecKeys == InitKeys /\ [][NextCall]_vars

\* the configurations of two calls of which each may use the hash cache and
\* the directory index or not, on a directory that may hold symbolic links
LinkConfigs ==
    [algorithm : Algorithms, hash_size : {2},
     threshold : {Pct(DefaultThreshold)}, use_cache : BOOLEAN,
     size_tolerance_pct : Tolerances, batch_size : {1},
     use_dir_index : BOOLEAN, refresh_dir_index : {FALSE}]

InitLinks ==
    /\ InitCommon
    /\ fs \in { f \in [Files -> InitFiles] :
                  /\ f[1] = FileOfKind(<< 2, "same" >>, 1)
                  /\ f[2] \in {Absent, FileOfKind(<< 5, "diff" >>, 1),
                                FileOfKind(<< 2, "bad" >>, 1)}
                  /\ \A i \in Files \ {1, 2} :
                        f[i] \in {Absent, FileOfKind(<< 2, "same" >>, 1)} }
    /\ links \in SUBSET {RefPath, 1}
    /\ refKind = "ok" /\ dirOk = TRUE /\ refInDir \in BOOLEAN /\ dbOk = TRUE
    /\ plan \in { pl \in [1..MaxRuns -> LinkConfigs] :
                    /\ \A i \in 1..MaxRuns :
                          pl[i].use_dir_index => pl[i].use_cache
                    /\ pl[1].algorithm = "perceptual" }

SpecLinks == InitLinks /\ [][NextCall]_vars

\* one call over files some of which never finish decoding
InitLive ==
    /\ InitCommon
    /\ links = {}
    /\ fs \in [Files -> {Absent, FileOfKind(<< 2, "same" >>, 1), HangingFile}]
    /\ refKind = "ok" /\ dirOk = TRUE /\ refInDir = FALSE /\ dbOk = TRUE
    /\ plan \in { << c >> :
                     c \in { cc \in Configs :
                                /\ cc.use_cache
                                /\ cc.threshold = Pct(DefaultThreshold)
                                /\ cc.size_tolerance_pct = NoTolerance
                                /\ cc.batch_size = 2 } }

\* the interpreter runs the coordinator on, and a worker that can return
\* does; nobody is bound to send SIGINT
SpecLive == InitLive /\ [][NextCall]_vars /\ WF_vars(CallStep)

(***************************************************************************)
(* A client of HashCache that calls upsert_many and get_cached itself,     *)
(* with paths spelled canonically or not.                                  *)
(***************************************************************************)
\* the file times a client may have read
Mtimes == {1, 2}

\* the ImageHashResult a client computed for the file it spells p, read when
\* the file's mtime was m
ClientResult(p, algorithm, hs, m) ==
    [path |-> p,
     hash_value |-> hash_fn(FileAt(resolve(p)).img, algorithm, hs),
     algorithm |-> algorithm,
     file_size |-> FileAt(resolve(p)).size,
     file_mtime |-> m]

\* items: a sequence of << path, mtime >>, one per result handed over
ClientUpsert(items, algorithm, hs) ==
    LET hashes == [i \in 1..Len(items) |->
                      ClientResult(items[i][1], algorithm, hs, items[i][2])]
    IN /\ pc = "idle"
       /\ \A i \in 1..Len(items) : FileAt(resolve(items[i][1])).present
       /\ db_hashes' = upsert_many(db_hashes, hashes, hs)
       /\ lookup' = [op |-> "upsert_many",
                     paths |-> [i \in 1..Len(items) |-> items[i][1]],
                     hashes |-> hashes,
                     algorithm |-> algorithm, hash_size |-> hs,
                     result |-> EmptyMap]
       /\ UNCHANGED << fsVars, db_meta, db_index, tx, other, pc, cfg, exc,
                       runVars, boundVars, changed, prev >>

ClientGetCached(paths, algorithm, hs) ==
    /\ pc = "idle"
    /\ lookup' = [op |-> "get_cached", paths |-> paths, hashes |-> << >>,
                  algorithm |-> algorithm, hash_size |-> hs,
                  result |-> get_cached(db_hashes, paths, algorithm, hs)]
    /\ UNCHANGED << fsVars, dbVars, other, pc, cfg, exc, runVars, boundVars,
                    changed, prev >>

\* one result, or the results of two spellings of one file read at two times
ClientItems ==
    { << << p, m >> >> : p \in Spellings, m \in Mtimes } \cup
    { << << pq[1], mm[1] >>, << pq[2], mm[2] >> >> :
         pq \in { x \in Spellings \X Spellings :
                    x[1] # x[2] /\ resolve(x[1]) = resolve(x[2]) },
         mm \in { y \in Mtimes \X Mtimes : y[1] # y[2] } }

NextCache ==
    \/ \E items \in ClientItems, a \in Algorithms, hs \in HashSizes :
          ClientUpsert(items, a, hs)
    \/ \E p \in Spellings, a \in Algorithms, hs \in HashSizes :
          ClientGetCached(<< p >>, a, hs)

InitCache ==
    /\ InitCommon
    /\ links = {}
    /\ fs \in { f \in [Files -> {Absent, FileOfKind(<< 2, "near" >>, 1)}] :
                  \A i \in Files \ {1} : ~f[i].present }
    /\ refKind = "ok" /\ dirOk = TRUE /\ refInDir = FALSE /\ dbOk = TRUE
    /\ plan = << >>

SpecCache == InitCache /\ [][NextCache]_vars

(***************************************************************************)
(* Properties.                                                             *)
(***************************************************************************)
Paths(res) == { res[i].path : i \in { j \in 1..Len(res) : res[j] # NoResult } }
MatchSet(ms) == { ms[i].candidate : i \in 1..Len(ms) }
RunKey(p) == << p, cfg.algorithm, cfg.hash_size >>
Hashable(p) == FileAt(p).present /\ FileAt(p).img # "bad"

\* the row a successful hash of the file now at p would store
RowNow(p) ==
    [mtime |-> FileAt(p).mtime, size |-> FileAt(p).size,
     hash |-> hash_to_hex(hash_fn(FileAt(p).img, cfg.algorithm, cfg.hash_size))]

\* C1: with caching enabled, step 5 takes a candidate's stored entry in place
\* of recomputation if and only if the entry's size and mtime both equal the
\* ones the stat collector read; every other candidate goes to the missing
\* list, and the result taken from the cache carries the stored hash.
C1_CacheUsedIffFresh ==
    [][ (pc = "resolve" /\ pc' = "pool" /\ cacheConn = "open") =>
          \A i \in 1..Len(candidates) :
             LET p == candidates[i]
                 fresh == /\ RunKey(p) \in DOMAIN db_hashes
                          /\ db_hashes[RunKey(p)].size = stats_map[p][1]
                          /\ db_hashes[RunKey(p)].mtime = stats_map[p][2]
             IN /\ fresh <=> p \in Paths(cached_results')
                /\ ~fresh <=> p \in Range(missing')
                /\ fresh =>
                     \E j \in 1..Len(cached_results') :
                        /\ cached_results'[j].path = p
                        /\ hash_to_hex(cached_results'[j].hash_value)
                              = db_hashes[RunKey(p)].hash ]_vars

\* C1 witness: the resolution took one entry from the cache and sent a file
\* to the missing list whose stored size still matches but whose mtime differs
C1_Witness ==
    /\ pc = "pool"
    /\ cacheConn = "open"
    /\ cached_results # << >>
    /\ \E p \in Range(missing) :
          /\ RunKey(p) \in DOMAIN db_hashes
          /\ db_hashes[RunKey(p)].size = stats_map[p][1]
          /\ db_hashes[RunKey(p)].mtime # stats_map[p][2]

\* two uninterrupted calls in a row, nothing changed between them
TwoQuietRuns ==
    /\ pc = "done"
    /\ prev.status = "done"
    /\ changed = {}
    /\ ~prev.interrupted
    /\ ~interrupted

\* C2 as stated: the second of two calls over an unchanged directory returns
\* the same match set and hands no file at all to the hashing pool.
C2_SecondRunHashesNothing ==
    TwoQuietRuns =>
       /\ MatchSet(matches) = MatchSet(prev.matches)
       /\ missing = << >>

\* C2 amended: the second call returns the same match set, it hands to the
\* pool only files whose hash computation failed in the first call, and every
\* file fingerprinted in the first call is resolved from the cache.
C2_SecondRunHashesOnlyFailed ==
    TwoQuietRuns =>
       /\ MatchSet(matches) = MatchSet(prev.matches)
       /\ \A p \in Range(missing) :
             p \in Range(prev.missing) /\ ~Hashable(p)
       /\ \A p \in Paths(prev.fresh) \cup Paths(prev.cached_results) :
             p \notin Range(missing) /\ p \in Paths(cached_results)

\* C2 witness: a second call that found a match in the cache and had to hash
\* again a file that failed before
C2_Witness ==
    /\ TwoQuietRuns
    /\ matches # << >>
    /\ cached_results # << >>
    /\ missing # << >>

\* the file f had a row under the run's key when the call began, and its size
\* or mtime is no longer the stored one
StaleRow(f) ==
    /\ fs[f].present
    /\ RunKey(f) \in DOMAIN prev.db_hashes
    /\ \/ prev.db_hashes[RunKey(f)].size # fs[f].size
       \/ prev.db_hashes[RunKey(f)].mtime # fs[f].mtime

\* C3 as stated: a cached file whose size or mtime changed is hashed again by
\* the next call, and when the call returns its row holds the new size, mtime
\* and hash.
C3_StaleRowAlwaysReplaced ==
    (pc = "done" /\ prev.status # "none") =>
       \A f \in Files :
          StaleRow(f) =>
             /\ f \in Range(missing)
             /\ RunKey(f) \in DOMAIN db_hashes
             /\ db_hashes[RunKey(f)] = RowNow(f)

\* C3 amended: such a file, when it passes the size pre-filter, is put in the
\* missing list; when the call is not interrupted and the hash computation
\* succeeds, its row holds the new size, mtime and hash at the return.
C3_StaleRowReplacedWhenHashed ==
    (pc = "done" /\ prev.status # "none") =>
       \A f \in Files :
          (StaleRow(f) /\ f \in Range(candidates)) =>
             /\ f \in Range(missing)
             /\ (~interrupted /\ Hashable(f)) =>
                   /\ RunKey(f) \in DOMAIN db_hashes
                   /\ db_hashes[RunKey(f)] = RowNow(f)

\* C3 witness: a call returned after replacing the row of a rewritten file
C3_Witness ==
    /\ pc = "done"
    /\ ~interrupted
    /\ \E f \in changed :
          /\ StaleRow(f)
          /\ Hashable(f)
          /\ prev.db_hashes[RunKey(f)].hash # RowNow(f).hash
          /\ db_hashes[RunKey(f)] = RowNow(f)

\* the matches the ranking keeps at threshold t, from the results at hand
MatchesAt(t) == SortMatches(FilterMatches(results, reference_image, ref_hash, t))
SomeThresholds == Thresholds \cup {0, Pct(50), Pct(100)}

\* C4: the returned list holds exactly the fingerprinted candidates whose
\* similarity is at least the threshold (the boundary included), matches_found
\* is its length, and a higher threshold never adds a match.
C4_ThresholdFilter ==
    pc = "done" =>
       LET ok == { i \in 1..Len(results) :
                     /\ results[i] # NoResult
                     /\ similarity_pct(ref_hash, results[i]) >= cfg.threshold }
       IN /\ Len(matches) = Cardinality(ok)
          /\ MatchSet(matches) = { results[i].path : i \in ok }
          /\ \A i \in 1..Len(matches) : matches[i].similarity_pct >= cfg.threshold
          /\ stats.matches_found = Len(matches)
          /\ \A t1, t2 \in SomeThresholds :
                t1 <= t2 => MatchSet(MatchesAt(t2)) \subseteq MatchSet(MatchesAt(t1))

\* C4 witness: a call returned a match exactly at the threshold, and left out
\* a less similar candidate and a failed one
C4_Witness ==
    /\ pc = "done"
    /\ \E i \in 1..Len(matches) : matches[i].similarity_pct = cfg.threshold
    /\ \E i \in 1..Len(results) :
          /\ results[i] # NoResult
          /\ similarity_pct(ref_hash, results[i]) < cfg.threshold
    /\ \E i \in 1..Len(results) : results[i] = NoResult

\* the results the workers give when they complete in the order of dispatch
InOrderResults ==
    [i \in 1..Len(missing) |->
        compute_hash_worker(WorkerArgs(missing, stats_map, cfg)[i])]

\* C5 as stated: the matches are in descending order of similarity and their
\* order does not depend on the order in which the workers complete: it is
\* the order the call gives when the workers complete in dispatch order.
C5_OrderIndependentOfCompletion ==
    (pc = "done" /\ ~interrupted) =>
       /\ \A i \in 1..(Len(matches) - 1) :
             matches[i].similarity_pct >= matches[i + 1].similarity_pct
       /\ matches = SortMatches(FilterMatches(InOrderResults \o cached_results,
                                              reference_image, ref_hash,
                                              cfg.threshold))

\* the fingerprints the call holds
Fingerprints ==
    (IF ref_hash # NoResult THEN {ref_hash} ELSE {}) \cup
    { results[i] : i \in { j \in 1..Len(results) : results[j] # NoResult } }

\* C6: for two fingerprints of N bits the distance is the number of differing
\* positions, the similarity is (1 - distance/N) * 100, it lies in [0, 100],
\* and equal bit vectors give distance 0 and similarity 100.
C6_SimilarityRange ==
    \A a, b \in Fingerprints :
       LET n == Len(a.hash_value)
           d == distance(a, b)
           sim == similarity_pct(a, b)
       IN Len(b.hash_value) = n =>
             /\ d = Cardinality({ i \in 1..n : a.hash_value[i] # b.hash_value[i] })
             /\ sim * n = Pct(100 * (n - d))
             /\ 0 <= sim /\ sim <= Pct(100)
             /\ a.hash_value = b.hash_value => (d = 0 /\ sim = Pct(100))

\* C6 witness: the call compared the reference with an identical fingerprint,
\* with one that differs in every bit and with one in between
C6_Witness ==
    /\ pc = "done"
    /\ \E r \in Fingerprints : r # ref_hash /\ similarity_pct(ref_hash, r) = Pct(100)
    /\ \E r \in Fingerprints : similarity_pct(ref_hash, r) = 0
    /\ \E r \in Fingerprints :
          0 < similarity_pct(ref_hash, r) /\ similarity_pct(ref_hash, r) < Pct(100)

\* the directory holds exactly A, a copy of the reference, and B, an image
\* that differs entirely; the call ran to its end with threshold 90
TwoImages(A, B) ==
    /\ pc = "done"
    /\ ~interrupted
    /\ cfg.threshold = Pct(DefaultThreshold)
    /\ A # B
    /\ fs[A] = [RefFile EXCEPT !.mtime = fs[A].mtime]
    /\ fs[B].present /\ fs[B].img = "diff"
    /\ \A f \in Files \ {A, B} : ~fs[f].present

OnlyMatch(A) ==
    << [reference |-> RefPath, candidate |-> A, distance |-> 0,
        similarity_pct |-> Pct(100), file_size |-> fs[A].size] >>

\* B's size lies in the window of the size pre-filter, or there is no filter
InWindow(B) ==
    \/ cfg.size_tolerance_pct = NoTolerance
    \/ /\ min_size(RefFile.size, cfg.size_tolerance_pct) <= fs[B].size
       /\ fs[B].size <= max_size(RefFile.size, cfg.size_tolerance_pct)

OnlyReference ==
    \A i \in 1..Len(candidates) : resolve(candidates[i]) = reference_image

\* C8: when the scan gives no candidate besides the reference, search()
\* returns no matches and total_files = 0, starts neither the stat pool nor
\* the hashing pool, and closes the cache when it had opened one.
C8_EmptyDirectory ==
    [][ (pc = "normalize" /\ OnlyReference /\ interrupts' = interrupts) =>
          /\ pc' = "done"
          /\ matches' = << >>
          /\ stats'.total_files = 0
          /\ statPool = "none" /\ statPool' = "none"
          /\ hashPool = "none" /\ hashPool' = "none"
          /\ cacheConn = "open" => cacheConn' = "closed"
          /\ cacheConn' # "open" ]_vars

\* C8 witness: a call on a directory that holds only the reference returned
\* with its cache closed and no pool started
C8_Witness ==
    /\ pc = "done"
    /\ refInDir
    /\ stats.total_files = 0
    /\ matches = << >>
    /\ statPool = "none" /\ hashPool = "none"
    /\ cacheConn = "closed"

\* C9 as stated: an interrupt at any point between the validation and the end
\* of hashing is absorbed: the call goes on to rank what it has and no
\* exception leaves search().
C9_InterruptNeverPropagates ==
    [][ (/\ pc \in {"scan", "normalize", "stat", "prefilter", "resolve",
                    "pool", "dispatch", "collect", "flush"}
         /\ interrupts' = interrupts + 1) =>
          (pc' = "rank" /\ exc' = "none") ]_vars

\* the batches of the previous call, as paths
PrevChunks == chunked(prev.missing, cfg.batch_size)

\* the previous call was interrupted after it had flushed batch 1 of 3, and
\* this call ran to its end over the unchanged directory
AfterBatchOneOfThree ==
    /\ pc = "done"
    /\ ~interrupted
    /\ changed = {}
    /\ prev.status = "done"
    /\ prev.interrupted
    /\ prev.flushed = 1
    /\ Len(PrevChunks) = 3

\* C10 as stated: the interrupted call returned results for the batch-1 files
\* only, and the next call hashes exactly the files of batches 2 and 3.
C10_OnlyBatchOne ==
    AfterBatchOneOfThree =>
       /\ Len(prev.fresh) = Len(PrevChunks[1])
       /\ Paths(prev.fresh) \subseteq Range(PrevChunks[1])
       /\ prev.stats.images_scanned + prev.stats.images_failed
             = Len(PrevChunks[1]) + Len(prev.cached_results)
       /\ Range(missing) = Range(PrevChunks[2]) \cup Range(PrevChunks[3])

\* C10 amended: the interrupted call returned results for the batch-1 files
\* and for the batch-2 files whose results had arrived before the interrupt;
\* the next call hashes exactly the files of batches 2 and 3 and the batch-1
\* files whose hash computation failed, and no fingerprinted batch-1 file.
C10_BatchOnePlusArrived ==
    AfterBatchOneOfThree =>
       /\ Len(PrevChunks[1]) <= Len(prev.fresh)
       /\ Len(prev.fresh) <= Len(PrevChunks[1]) + Len(PrevChunks[2])
       /\ Paths(prev.fresh) \subseteq Range(PrevChunks[1]) \cup Range(PrevChunks[2])
       /\ prev.stats.images_scanned + prev.stats.images_failed
             = Len(prev.fresh) + Len(prev.cached_results)
       /\ MatchSet(prev.matches)
             \subseteq Paths(prev.fresh) \cup Paths(prev.cached_results)
       /\ Range(missing) =
             Range(PrevChunks[2]) \cup Range(PrevChunks[3])
                \cup { p \in Range(PrevChunks[1]) : ~Hashable(p) }
       /\ Paths(prev.fresh) \cap Range(PrevChunks[1]) \cap Range(missing) = {}

\* C10 witness: the interrupted call had received a batch-2 result and the
\* next call hashed the batch-2 and batch-3 files, and not the batch-1 file
C10_Witness ==
    /\ AfterBatchOneOfThree
    /\ Len(prev.fresh) = Len(PrevChunks[1]) + 1
    /\ Paths(prev.fresh) \cap Range(PrevChunks[2]) # {}
    /\ Range(missing) = Range(PrevChunks[2]) \cup Range(PrevChunks[3])

\* the candidates handed to the pool whose hash computation fails
FailedFiles == { p \in Range(missing) : ~Hashable(p) }

\* C11: a candidate whose hash computation fails aborts neither its batch nor
\* the call: every file handed to the pool still gives a result, the failed
\* file adds exactly 1 to images_failed, it is in no match, no cache row is
\* written for it, and the other files of the run are counted and cached.
C11_FailedHashIsAbsorbed ==
    (pc = "done" /\ ~interrupted) =>
       /\ Len(results) = Len(missing) + Len(cached_results)
       /\ stats.images_failed = Cardinality(FailedFiles)
       /\ stats.images_scanned = Len(results) - Cardinality(FailedFiles)
       /\ MatchSet(matches) \cap FailedFiles = {}
       /\ \A p \in FailedFiles : RunKey(p) \notin DOMAIN db_hashes
       /\ \A p \in Range(missing) \ FailedFiles :
             /\ p \in Paths(results)
             /\ cfg.use_cache => RunKey(p) \in DOMAIN db_hashes

\* C11 witness: a batch of two files in which the first result to arrive was
\* a failure; the other file of the batch was still hashed, matched and cached
C11_Witness ==
    /\ pc = "done"
    /\ ~interrupted
    /\ cfg.use_cache
    /\ cfg.batch_size = 2
    /\ Len(results) >= 2
    /\ results[1] = NoResult
    /\ results[2] # NoResult
    /\ results[2].path \in MatchSet(matches)
    /\ RunKey(results[2].path) \in DOMAIN db_hashes
    /\ stats.images_failed = 1

\* C13: a missing reference image, a missing search directory and an
\* unhashable reference image each make search() raise (FileNotFoundError,
\* FileNotFoundError, ValueError) at its first step: the cache is not opened,
\* no directory is walked, no stat thread and no hashing worker is started,
\* and the cache tables are not written.
C13_FatalBeforeAnyWork ==
    [][ (pc = "idle" /\ pc' # "idle" /\ (refKind # "ok" \/ ~dirOk)) =>
          /\ pc' = "raised"
          /\ exc' = IF refKind = "missing" \/ ~dirOk
                    THEN "FileNotFoundError" ELSE "ValueError"
          /\ cacheConn' = "none"
          /\ statPool' = "none"
          /\ hashPool' = "none"
          /\ candidates' = << >>
          /\ results' = << >>
          /\ UNCHANGED dbVars ]_vars

\* C13 witness: a call on an unhashable reference image raised ValueError
\* with no cache connection, no pool and no candidate list
C13_Witness ==
    /\ pc = "raised"
    /\ exc = "ValueError"
    /\ refKind = "bad"
    /\ cacheConn = "none" /\ statPool = "none" /\ hashPool = "none"
    /\ candidates = << >>
    /\ db_hashes = EmptyMap /\ db_meta = NoMeta

\* C12 as stated: a stat that fails for one candidate does not abort the stat
\* collection: the call goes on to the size pre-filter with the metadata of
\* the other candidates, and the file that could not be stat'ed has no entry
\* in stats_map (so it is never a cache hit).
C12_StatFailureIsAbsorbed ==
    [][ (pc = "stat" /\ interrupts' = interrupts) =>
          /\ pc' = "prefilter"
          /\ exc' = "none"
          /\ DOMAIN stats_map' =
                { p \in Range(candidates) : FileAt(p).present } ]_vars

\* C14 as stated: an exception leaves search() only for a missing reference
\* image or search directory (FileNotFoundError) or an unhashable reference
\* image (ValueError); a cache database that cannot be opened does not make
\* the call raise.
C14_OnlyFatalKindsPropagate ==
    (pc = "raised" /\ interrupts = 0) =>
       /\ exc \in {"FileNotFoundError", "ValueError"}
       /\ refKind # "ok" \/ ~dirOk

\* C15 as stated: whenever control leaves search(), by a return or by an
\* exception, no cache connection and no pool of the call is still open.
C15_ReleasedOnEveryExit ==
    pc \in {"done", "raised"} =>
       /\ cacheConn # "open"
       /\ statPool # "open"
       /\ hashPool # "open"

\* search() consults the directory index
UsesIndex == cfg.use_cache /\ cfg.use_dir_index /\ ~cfg.refresh_dir_index

\* the four conditions on the stored index of the root
IndexValid ==
    /\ db_meta.present
    /\ dirOk
    /\ dirMtime = db_meta.dir_mtime
    /\ Len(db_index) = db_meta.file_count

\* C16 as stated: get_index gives the stored member list if and only if a
\* metadata row exists, the root can be stat'ed, its mtime equals the stored
\* one and the number of stored rows equals the stored file_count (0
\* included); in every other case the caller walks the directory.
C16_IndexHitIffValid ==
    [][ (pc = "scan" /\ UsesIndex /\ dbOk /\ interrupts' = interrupts) =>
          /\ IndexValid <=> (pc' = "normalize" /\ candidates' = db_index)
          /\ ~IndexValid <=>
                (pc' = "reindex" /\ candidates' = collect_image_paths) ]_vars

\* C16 amended: get_index gives the stored member list if and only if the
\* four conditions hold and at least one member row is stored; an index
\* stored for a directory without images (file_count 0) is never a hit, and
\* on every miss the caller walks the directory.
C16_IndexHitIffValidAndNonEmpty ==
    [][ (pc = "scan" /\ UsesIndex /\ dbOk /\ interrupts' = interrupts) =>
          /\ (IndexValid /\ db_index # << >>) <=>
                (pc' = "normalize" /\ candidates' = db_index)
          /\ ~(IndexValid /\ db_index # << >>) <=>
                (pc' = "reindex" /\ candidates' = collect_image_paths) ]_vars

\* C16 witness: the scan took the stored member list, which no longer is what
\* a walk would give
C16_Witness ==
    /\ pc = "normalize"
    /\ UsesIndex
    /\ IndexValid
    /\ candidates = db_index
    /\ candidates # << >>
    /\ candidates # collect_image_paths

\* a file directly under the root was added or removed since the index of
\* the root was stored
TopLevelChange ==
    \E f \in changed :
       /\ ~InSubdir(f)
       /\ fs[f].present # (f \in Range(db_index))

\* C17: after a file was added or removed directly under the root, the next
\* call with the directory index enabled walks the directory, and the index
\* it then stores is the one of the walk: its members are the files present
\* and its dir_mtime is the current one.
C17_IndexInvalidation ==
    [][ /\ (pc = "scan" /\ UsesIndex /\ dbOk /\ TopLevelChange
              /\ interrupts' = interrupts) =>
              (pc' = "reindex" /\ candidates' = collect_image_paths)
        /\ (pc = "reindex_meta" /\ pc' = "normalize") =>
              /\ db_index' = replace_index_rows(collect_image_paths)
              /\ db_meta' = [present |-> TRUE, dir_mtime |-> dirMtime,
                             file_count |-> Len(collect_image_paths)]
              /\ \A f \in Files : fs[f].present <=> f \in Range(candidates')
      ]_vars

\* C17 witness: the second call walked the directory again and its candidates
\* and the stored index hold a file that was added after the first call
C17_Witness ==
    /\ pc = "normalize"
    /\ UsesIndex
    /\ prev.status = "done"
    /\ cfg.size_tolerance_pct = NoTolerance
    /\ \E f \in changed :
          /\ ~InSubdir(f)
          /\ fs[f].present
          /\ f \notin Range(prev.missing)
          /\ f \in Range(candidates)
          /\ f \in Range(db_index)
    /\ db_meta.dir_mtime = dirMtime

\* the committed index of the root becomes the index of the walk w
CompleteIndex(w) ==
    /\ db_index' = replace_index_rows(w)
    /\ db_meta' = replace_index_meta(w, dirOk, dirMtime)

\* C18: replace_index is atomic.  After every step (a statement of a
\* transaction, a failure between the DELETE and the metadata row, a commit
\* of this or of another process) the committed tables hold a complete index
\* of the root: the member rows are as many as the metadata row says, and
\* without a metadata row there are none.  The committed tables change only
\* by the commit of one process and then hold that process's whole index
\* (the last commit wins); a replace_index that fails leaves them unchanged.
C18_ReplaceIndexAtomic ==
    [][ /\ db_meta'.present => Len(db_index') = db_meta'.file_count
        /\ ~db_meta'.present => db_index' = << >>
        /\ (<< db_index, db_meta >>' # << db_index, db_meta >>) =>
              \/ pc = "reindex_meta" /\ pc' = "normalize"
                    /\ CompleteIndex(candidates)
              \/ other.pc = "writing" /\ other'.pc = "done"
                    /\ CompleteIndex(other.walk)
        /\ (pc \in {"reindex", "reindex_rows", "reindex_meta"}
              /\ pc' = "raised") => UNCHANGED << db_index, db_meta >>
      ]_vars

\* C18 witness: replace_index failed on a vanished member after its DELETE;
\* the uncommitted transaction holds no row and the committed tables still
\* hold the complete previous index
C18_Witness ==
    /\ pc = "raised"
    /\ exc = "FileNotFoundError"
    /\ tx.open
    /\ tx.index = << >>
    /\ db_meta.present
    /\ db_index # << >>
    /\ Len(db_index) = db_meta.file_count

\* the fingerprint the run's algorithm and hash size give for the file at p
HashNow(p) == hash_fn(FileAt(p).img, cfg.algorithm, cfg.hash_size)

\* C19: the hash cache is partitioned by algorithm and hash size.  Every
\* entry the resolution takes from the cache is the row stored under the
\* run's own (path, algorithm, hash_size): it has hash_size^2 bits and is the
\* fingerprint the run's algorithm gives, whatever rows other configurations
\* stored for the same file with the same size and mtime.  Every row a flush
\* writes is stored under the run's configured algorithm and hash_size, and
\* the rows of every other configuration are left as they were.
C19_PartitionedByAlgorithmAndSize ==
    [][ /\ (pc = "resolve" /\ pc' = "pool") =>
              \A j \in 1..Len(cached_results') :
                 LET r == cached_results'[j]
                 IN /\ RunKey(r.path) \in DOMAIN db_hashes
                    /\ hash_to_hex(r.hash_value) = db_hashes[RunKey(r.path)].hash
                    /\ r.algorithm = cfg.algorithm
                    /\ Len(r.hash_value) = cfg.hash_size * cfg.hash_size
                    /\ r.hash_value = HashNow(r.path)
        /\ (pc = "flush") =>
              \A k \in DOMAIN db_hashes' :
                 \/ k \in DOMAIN db_hashes /\ db_hashes'[k] = db_hashes[k]
                 \/ /\ k[2] = cfg.algorithm
                    /\ k[3] = cfg.hash_size
                    /\ db_hashes'[k].hash = hash_to_hex(HashNow(k[1]))
      ]_vars

\* C19 witness: the second call, configured with another hash size, sent to
\* the missing list a file that has a row of the first call with the same
\* size and mtime, and took no entry from the cache
C19_Witness ==
    /\ pc = "pool"
    /\ runs = 1
    /\ cached_results = << >>
    /\ \E p \in Range(missing) :
          \E k \in DOMAIN db_hashes :
             /\ k[1] = p
             /\ k[2] = cfg.algorithm
             /\ k[3] # cfg.hash_size
             /\ db_hashes[k].size = stats_map[p][1]
             /\ db_hashes[k].mtime = stats_map[p][2]

\* the rows stored for the file that p spells, under (algorithm, hash size)
RowsOf(db, p, algorithm, hs) ==
    { k \in DOMAIN db :
         resolve(k[1]) = resolve(p) /\ k[2] = algorithm /\ k[3] = hs }

\* C20: canonical paths are the only keys of the hash cache.  After
\* upsert_many under any spellings of a file there is exactly one row for
\* (file, algorithm, hash_size), stored under the canonical path, and
\* get_cached under every spelling of the file finds it; get_cached finds an
\* entry exactly when a row is stored for the file it was asked about.
C20_CanonicalKeys ==
    [][ /\ \A k \in DOMAIN db_hashes' : resolve(k[1]) = k[1]
        /\ lookup'.op = "upsert_many" =>
              \A i \in 1..Len(lookup'.paths) :
                 LET p == lookup'.paths[i]
                     a == lookup'.algorithm
                     hs == lookup'.hash_size
                 IN /\ RowsOf(db_hashes', p, a, hs) = { << resolve(p), a, hs >> }
                    /\ \A q \in Spellings :
                          resolve(q) = resolve(p) =>
                             /\ resolve(p) \in DOMAIN get_cached(db_hashes', << q >>, a, hs)
                             /\ get_cached(db_hashes', << q >>, a, hs)[resolve(p)].hash_hex
                                   = hash_to_hex(hash_fn(FileAt(resolve(p)).img, a, hs))
        /\ lookup'.op = "get_cached" =>
              \A i \in 1..Len(lookup'.paths) :
                 LET p == lookup'.paths[i]
                     key == << resolve(p), lookup'.algorithm, lookup'.hash_size >>
                 IN /\ key \in DOMAIN db_hashes <=> resolve(p) \in DOMAIN lookup'.result
                    /\ key \in DOMAIN db_hashes =>
                          lookup'.result[resolve(p)].hash_hex = db_hashes[key].hash
      ]_vars

\* C20 witness: a lookup under the alias of a file found the one row that
\* upserts under both spellings of the file had left
C20_Witness ==
    /\ lookup.op = "get_cached"
    /\ \E f \in Files :
          /\ lookup.paths = << Alias(f) >>
          /\ DOMAIN lookup.result = {f}
          /\ Cardinality(RowsOf(db_hashes, f, lookup.algorithm,
                                lookup.hash_size)) = 1


\* C21: upsert_many is an upsert on (canonical path, algorithm, hash_size).
\* After a call the table holds at most one row per key; the row of every
\* key the call wrote carries the mtime, size and hash of the last result
\* handed over for that key; every other row is as it was.
C21_UpsertKeepsOneRowPerKey ==
    [][ lookup'.op = "upsert_many" =>
          LET hashes == lookup'.hashes
              KeyOf(i) == << resolve(hashes[i].path), hashes[i].algorithm,
                             lookup'.hash_size >>
              written == { KeyOf(i) : i \in 1..Len(hashes) }
              LastFor(k) ==
                  hashes[CHOOSE i \in 1..Len(hashes) :
                            /\ KeyOf(i) = k
                            /\ \A j \in 1..Len(hashes) : KeyOf(j) = k => j <= i]
          IN /\ DOMAIN db_hashes' = DOMAIN db_hashes \cup written
             /\ \A k \in written :
                   db_hashes'[k] = [mtime |-> LastFor(k).file_mtime,
                                    size |-> LastFor(k).file_size,
                                    hash |-> hash_to_hex(LastFor(k).hash_value)]
             /\ \A k \in DOMAIN db_hashes \ written :
                   db_hashes'[k] = db_hashes[k]
             /\ \A f \in Files, a \in Algorithms, hs \in HashSizes :
                   Cardinality(RowsOf(db_hashes', f, a, hs)) <= 1
      ]_vars

\* C21 witness: one call handed over two results for one file, read at two
\* times; the row carries the later one, and a row of another key is stored
C21_Witness ==
    /\ lookup.op = "upsert_many"
    /\ Len(lookup.hashes) = 2
    /\ lookup.hashes[1].file_mtime # lookup.hashes[2].file_mtime
    /\ LET key == << resolve(lookup.paths[2]), lookup.algorithm,
                     lookup.hash_size >>
       IN /\ key \in DOMAIN db_hashes
          /\ db_hashes[key].mtime = lookup.hashes[2].file_mtime
          /\ \E k \in DOMAIN db_hashes : k # key /\ k[1] = key[1]


\* C22: get_cached looks the paths up in statements of bounded size.  Each
\* statement binds a chunk of at most max_vars paths plus the algorithm and
\* the hash size; with _SQLITE_MAX_VARS paths that stays under the limit of
\* the store; and whatever the statement size, the merged result is the
\* result of one statement over all the paths.
C22_ChunkedLookupEqualsSingle ==
    (pc = "resolve" /\ cacheConn = "open") =>
       LET path_list == [i \in 1..Len(candidates) |-> resolve(candidates[i])]
           single == select_rows(db_hashes, path_list, cfg.algorithm,
                                 cfg.hash_size)
       IN /\ Len(BoundParams([i \in 1..SQLITE_MAX_VARS |-> i]))
                <= SQLITE_MAX_VARIABLE_NUMBER
          /\ get_cached(db_hashes, candidates, cfg.algorithm, cfg.hash_size)
                = single
          /\ \A n \in 1..(NFiles + 1) :
                /\ \A k \in 1..Len(PathChunks(path_list, n)) :
                      /\ PathChunks(path_list, n)[k] # << >>
                      /\ Len(BoundParams(PathChunks(path_list, n)[k])) <= n + 2
                /\ get_cached_by(db_hashes, candidates, cfg.algorithm,
                                 cfg.hash_size, n) = single

\* C22 witness: a lookup of three candidates that finds rows for the first
\* and the last of them, which statements of one or two paths keep apart
C22_Witness ==
    /\ pc = "resolve" /\ cacheConn = "open"
    /\ Len(candidates) = 3
    /\ << candidates[1], cfg.algorithm, cfg.hash_size >> \in DOMAIN db_hashes
    /\ << candidates[3], cfg.algorithm, cfg.hash_size >> \in DOMAIN db_hashes
    /\ Len(PathChunks(candidates, 2)) = 2


\* the number of tasks in the batches 1..j
RECURSIVE TasksUpTo(_)
TasksUpTo(j) == IF j = 0 THEN 0 ELSE Len(chunks[j]) + TasksUpTo(j - 1)

\* the fingerprint r is in the cache under the key of the run
Stored(r) ==
    r # NoResult =>
       /\ << r.path, cfg.algorithm, cfg.hash_size >> \in DOMAIN db_hashes
       /\ db_hashes[<< r.path, cfg.algorithm, cfg.hash_size >>] =
             [mtime |-> r.file_mtime, size |-> r.file_size,
              hash |-> hash_to_hex(r.hash_value)]

\* C23 as stated: when the hashing is interrupted, the fingerprints of every
\* batch whose tasks have all completed are in the cache.
C23_CompletedBatchesCached ==
    (interrupted /\ pc = "rank" /\ cacheConn = "open") =>
       \A j \in 1..Len(chunks) :
          TasksUpTo(j) <= Len(results) =>
             \A i \in (TasksUpTo(j - 1) + 1)..TasksUpTo(j) : Stored(results[i])

\* C23 amended: whenever a batch is dispatched, hashed or awaiting its
\* upsert, and when the hashing is interrupted, the fingerprints of every
\* batch before the current one are in the cache.
C23_PrecedingBatchesCached ==
    (cacheConn = "open" /\ (InTryBlock \/ (interrupted /\ pc = "rank"))) =>
       \A i \in 1..TasksUpTo(chunkIdx - 1) : Stored(results[i])

\* C23 witness: an interrupt arrived in the second batch after its last
\* result; the first batch's fingerprint is stored, the second's is not
C23_Witness ==
    /\ interrupted /\ pc = "rank" /\ cacheConn = "open"
    /\ chunkIdx = 2
    /\ Len(results) = TasksUpTo(2)
    /\ results[1] # NoResult /\ Stored(results[1])
    /\ results[Len(results)] # NoResult /\ ~Stored(results[Len(results)])


\* the batches one after the other
RECURSIVE Flatten(_)
Flatten(seqs) == IF seqs = << >> THEN << >>
                 ELSE Head(seqs) \o Flatten(Tail(seqs))

\* C24: the effective batch size is positive, a non-positive one having been
\* replaced by the default; the batches are consecutive slices that make up
\* the list of files to hash; every batch but the last has exactly
\* batch_size tasks and the last has between 1 and batch_size; and each
\* task of the batches taken so far has produced exactly one result, so an
\* uninterrupted run has one result per file to hash.
C24_BatchesPartitionMissing ==
    /\ pc \notin {"idle"} =>
          /\ cfg.batch_size > 0
          /\ cfg.batch_size = IF plan[runs + 1].batch_size <= 0
                              THEN DefaultBatchSize
                              ELSE plan[runs + 1].batch_size
    /\ pc \in {"pool", "dispatch", "collect", "flush"} =>
          /\ Flatten(chunks) = WorkerArgs(missing, stats_map, cfg)
          /\ \A k \in 1..Len(chunks) :
                /\ Len(chunks[k]) >= 1
                /\ Len(chunks[k]) <= cfg.batch_size
                /\ k < Len(chunks) => Len(chunks[k]) = cfg.batch_size
    /\ pc = "collect" =>
          Len(results) + Cardinality(pending) = TasksUpTo(chunkIdx)
    /\ pc = "flush" => Len(results) = TasksUpTo(chunkIdx)
    /\ (pc = "done" /\ ~interrupted) =>
          /\ Len(results) = Len(missing) + Len(cached_results)
          /\ \A i \in 1..Len(missing) :
                results[i] # NoResult =>
                   /\ results[i].path \in Range(missing)
                   /\ \A j \in 1..Len(missing) :
                         (j # i /\ results[j] # NoResult) =>
                            results[j].path # results[i].path

\* C24 witness: the first call left its non-positive batch size to the
\* default and hashed its files in one batch; the second call, with batch
\* size 2, has hashed a full batch and a last batch of one file
C24_Witness ==
    /\ runs = 1
    /\ plan[1].batch_size <= 0
    /\ Len(prev.fresh) >= 2
    /\ plan[2].batch_size = 2
    /\ pc = "flush" /\ chunkIdx = 2
    /\ Len(chunks) = 2 /\ Len(chunks[1]) = 2 /\ Len(chunks[2]) = 1


\* C25: once the coordinator has caught an interrupt during the hashing, no
\* batch is dispatched, no task completes, the pool stays terminated and
\* the hash cache is not written for the rest of the call.
C25_NothingAfterInterrupt ==
    [][ interrupted =>
          /\ db_hashes' = db_hashes
          /\ pc' \notin {"dispatch", "collect", "flush"}
          /\ pending' = {}
          /\ pc' # "idle" =>
                /\ hashPool' = "closed"
                /\ results' \in {results, results \o cached_results}
      ]_vars

\* C25 witness: the interrupt came while the first of several batches was
\* being hashed, with one task still pending; the call returned what it had
C25_Witness ==
    /\ interrupted /\ pc = "done"
    /\ cacheConn = "closed"
    /\ chunkIdx = 1 /\ Len(chunks) >= 2
    /\ Len(results) < Len(missing) + Len(cached_results)


\* C26: every call of search() that has started eventually reaches Done or
\* a terminal failure, whatever the files are, a file whose decoding hangs
\* included.
C26_EveryCallReturns ==
    (pc # "idle") ~> (pc \in {"done", "raised"})


\* the files present directly under the root
TopLevelPresent == { f \in Files : ~InSubdir(f) /\ fs[f].present }

\* C27: whenever get_index accepts the stored index, its members directly
\* under the root are the files present directly under the root.
C27_AcceptedIndexIsCurrent ==
    (pc = "scan" /\ UsesIndex /\ dbOk
       /\ get_index(db_meta, db_index, dirOk, dirMtime).hit) =>
          { f \in Range(db_index) : ~InSubdir(f) } = TopLevelPresent


\* C28: whenever search() returns, images_scanned + images_failed is at
\* most total_files and matches_found is at most images_scanned; when the
\* hashing was not interrupted, images_scanned + images_failed equals
\* total_files.
C28_StatsAddUp ==
    pc = "done" =>
       /\ stats.images_scanned + stats.images_failed <= stats.total_files
       /\ stats.matches_found <= stats.images_scanned
       /\ ~interrupted =>
             stats.images_scanned + stats.images_failed = stats.total_files


\* C29: the reference image is never a candidate, whether the candidates
\* come from a walk or from the directory index and however a path of the
\* directory spells it: once the candidates are normalised none of them is
\* the canonical reference path, total_files counts those candidates only,
\* and no result or match is about the reference.
C29_ReferenceNeverCandidate ==
    pc \in {"stat", "prefilter", "resolve", "pool", "dispatch", "collect",
            "flush", "rank", "done"} =>
       /\ reference_image = resolve(reference_image)
       /\ reference_image \notin Range(candidates)
       /\ stats.total_files = Len(candidates)
       /\ \A i \in 1..Len(missing) : missing[i] # reference_image
       /\ \A i \in 1..Len(results) :
             results[i] # NoResult => results[i].path # reference_image
       /\ \A i \in 1..Len(matches) : matches[i].candidate # reference_image

\* C29 witness: the reference lies in the directory; the second call took
\* its candidates from the directory index, which lists the reference, and
\* returned matches
C29_Witness ==
    /\ pc = "done" /\ runs = 1
    /\ refInDir /\ UsesIndex
    /\ plan[1].use_dir_index /\ prev.status = "done"
    /\ db_meta.present /\ RefPath \in Range(db_index)
    /\ db_meta.dir_mtime = dirMtime
    /\ matches # << >>


\* C30: a call writes image_hashes only at the flush of a batch, only with
\* an open cache, and only rows under the call's (algorithm, hash_size) for
\* files of the batch that were hashed; a row of a candidate resolved from
\* the cache, of a file the size pre-filter removed, of a file that failed
\* or under another (algorithm, hash_size) is as it was.  A call without the
\* cache opens no store and writes no table.
C30_WritesOnlyHashedRows ==
    [][ /\ \A k \in DOMAIN db_hashes \cup DOMAIN db_hashes' :
              (\/ k \notin DOMAIN db_hashes
               \/ k \notin DOMAIN db_hashes'
               \/ db_hashes'[k] # db_hashes[k]) =>
                 /\ pc = "flush" /\ cfg.use_cache /\ cacheConn = "open"
                 /\ k[2] = cfg.algorithm /\ k[3] = cfg.hash_size
                 /\ k[1] \in Range(candidates)
                 /\ k[1] \in Range(missing)
                 /\ \A i \in 1..Len(cached_results) :
                       cached_results[i].path # k[1]
                 /\ \E i \in 1..Len(chunk_results) :
                       /\ chunk_results[i].path = k[1]
                       /\ chunk_results[i] = compute_hash_worker(
                             [path |-> k[1], size |-> stats_map[k[1]][1],
                              mtime |-> stats_map[k[1]][2],
                              algorithm |-> cfg.algorithm,
                              hash_size |-> cfg.hash_size])
                 /\ k \in DOMAIN db_hashes'
        /\ (pc # "idle" /\ ~cfg.use_cache) =>
              /\ cacheConn' = "none"
              /\ UNCHANGED dbVars
      ]_vars

\* C30 witness: the second call, under another algorithm and with the size
\* pre-filter, has written a row for file 1; the rows the first call left
\* for file 1 and for the file the pre-filter removed are as they were
C30_Witness ==
    /\ pc = "done" /\ runs = 1 /\ cfg.use_cache
    /\ cfg.algorithm # plan[1].algorithm
    /\ << 1, cfg.algorithm, cfg.hash_size >> \in DOMAIN db_hashes
    /\ \E f \in Files :
          /\ f \notin Range(candidates)
          /\ << f, cfg.algorithm, cfg.hash_size >> \notin DOMAIN db_hashes
          /\ << f, plan[1].algorithm, cfg.hash_size >> \in DOMAIN db_hashes
    /\ \A k \in DOMAIN prev.db_hashes :
          k \in DOMAIN db_hashes /\ db_hashes[k] = prev.db_hashes[k]

=============================================================================
